---- MODULE Spec2Model ----
(***************************************************************************)
(* A model of the UCI configuration tree of go-uci (src/types.go):         *)
(* Config / Section / Option, the "@type[index]" selector parser and       *)
(* resolver, and the merge and delete operations.                          *)
(*                                                                         *)
(* Go strings are sequences of one-character strings, so that formatting   *)
(* a selector and parsing it back are two different computations.  A       *)
(* *Section is a record whose field ptr is the pointer's identity.         *)
(***************************************************************************)
EXTENDS Integers, Sequences, FiniteSets, TLC

VARIABLES
    Sections,   \* Config.Sections: the sequence of sections (with their ptr)
    pre,        \* Config.Sections as it was before the last call
    call,       \* the last call on the Config: [op, name, s]
    ret,        \* what that call returned: [sec, err, panicked]
    input,      \* the string handed to unmangleSectionName
    parsed,     \* its outcome: [done, typ, index, err]
    Values,     \* Option.Values of the option under test
    optPre,     \* Option.Values before the last call on the option
    optCall,    \* the last call on the option: [op, vs]
    Options,    \* Section.Options of the section under test
    secPre,     \* Section.Options before the last call on the section
    secCall,    \* the last call on the section: [op, o, name]
    secRet,     \* what Section.Del returned
    out,        \* the lines Config.WriteTo handed to the sink
    sink        \* the error the sink answered the write with

vars ==
    <<Sections, pre, call, ret, input, parsed, Values, optPre, optCall,
      Options, secPre, secCall, secRet, out, sink>>

configVars == <<Sections, pre, call, ret>>
parseVars == <<input, parsed>>
optionVars == <<Values, optPre, optCall>>
sectionVars == <<Options, secPre, secCall, secRet>>
writeVars == <<out, sink>>

----------------------------------------------------------------------------
(* Bounds of the model. *)

\* The most sections a Config holds.
MaxSections == 3

\* The longest string handed to the selector parser.
MaxLen == 6

\* The most values an option holds.
MaxValues == 4

\* The most values handed to one call on an option.
MaxIncoming == 2

\* The most options one section holds.
MaxOptions == 3

----------------------------------------------------------------------------
(* Strings. *)

DigitSeq == <<"0", "1", "2", "3", "4", "5", "6", "7", "8", "9">>

Digits == {DigitSeq[k] : k \in 1..10}

DigitVal(ch) == (CHOOSE k \in 1..10 : DigitSeq[k] = ch) - 1

\* strings.HasPrefix(name, "@")
HasPrefixAt(name) == Len(name) >= 1 /\ name[1] = "@"

\* name[lo:hi] of Go, lo and hi 0-based, hi exclusive.
Slice(name, lo, hi) == [k \in 1..(hi - lo) |-> name[lo + k]]

RECURSIVE DecValue(_, _)
\* The loop of strconv.Atoi: n = n*10 + digit, over the first k characters.
DecValue(s, k) ==
    IF k = 0 THEN 0 ELSE DecValue(s, k - 1) * 10 + DigitVal(s[k])

\* strconv.Atoi on strings short enough not to overflow an int: an optional
\* sign, then one or more decimal digits.
Atoi(s) ==
    LET fail == [n |-> 0, ok |-> FALSE]
    IN  IF Len(s) = 0 THEN fail
        ELSE LET body == IF s[1] \in {"-", "+"} THEN Tail(s) ELSE s
             IN  IF Len(body) < 1 THEN fail
                 ELSE IF \E k \in 1..Len(body) : body[k] \notin Digits THEN fail
                 ELSE LET n == DecValue(body, Len(body))
                      IN  [n |-> IF s[1] = "-" THEN -n ELSE n, ok |-> TRUE]

RECURSIVE Itoa(_)
\* strconv.Itoa
Itoa(n) ==
    IF n < 0 THEN <<"-">> \o Itoa(-n)
    ELSE IF n < 10 THEN <<DigitSeq[n + 1]>>
    ELSE Itoa(n \div 10) \o <<DigitSeq[(n % 10) + 1]>>

\* Num2PlaceholderSection: "@" + sectionType + "[" + Itoa(num) + "]"
Num2PlaceholderSection(sectionType, num) ==
    <<"@">> \o sectionType \o <<"[">> \o Itoa(num) \o <<"]">>

----------------------------------------------------------------------------
(* The selector parser. *)

ErrNil == "nil"
ErrImplausibleSectionSelector == "ErrImplausibleSectionSelector"
ErrMustStartWithAt == "ErrMustStartWithAt"
ErrMultipleAtSigns == "ErrMultipleAtSigns"
ErrMultipleOpenBrackets == "ErrMultipleOpenBrackets"
ErrMultipleCloseBrackets == "ErrMultipleCloseBrackets"
ErrInvalidSectionSelector == "ErrInvalidSectionSelector"
ErrIndexNotNumeric == "ErrIndexNotNumeric"
ErrUnnamedIndexOutOfBounds == "ErrUnnamedIndexOutOfBounds"

RECURSIVE scanBrackets(_, _, _)
\* The loop "for i, r := range name" of unmangleSectionName, from the
\* 0-based position i on, with bra as found so far: the error it returns
\* with, or the final bra.
scanBrackets(name, i, bra) ==
    IF i >= Len(name) THEN [err |-> ErrNil, bra |-> bra]
    ELSE LET r == name[i + 1]
             ket == Len(name) - 1
         IN  IF i # 0 /\ r = "@" THEN [err |-> ErrMultipleAtSigns, bra |-> bra]
             ELSE IF r = "[" /\ bra > 0
                  THEN [err |-> ErrMultipleOpenBrackets, bra |-> bra]
             ELSE IF r = "]" /\ i # ket
                  THEN [err |-> ErrMultipleCloseBrackets, bra |-> bra]
             ELSE IF r = "[" THEN scanBrackets(name, i + 1, i)
             ELSE scanBrackets(name, i + 1, bra)

\* A variant of the parser that reports the three per-character errors by
\* class (any "@", then any second "[", then any early "]") instead of by
\* the position of the first offending character.
unmangleSectionNameByClass(name) ==
    LET l == Len(name)
        fail(e) == [typ |-> <<>>, index |-> 0, err |-> e]
        opens == {k \in 1..l : name[k] = "["}
        bra0 == IF opens = {} THEN 0
                ELSE (CHOOSE k \in opens : \A j \in opens : j <= k) - 1
    IN  IF l < 5 THEN fail(ErrImplausibleSectionSelector)
        ELSE IF name[1] # "@" THEN fail(ErrMustStartWithAt)
        ELSE IF \E k \in 2..l : name[k] = "@" THEN fail(ErrMultipleAtSigns)
        ELSE IF Cardinality(opens) > 1 THEN fail(ErrMultipleOpenBrackets)
        ELSE IF \E k \in 1..(l - 1) : name[k] = "]"
             THEN fail(ErrMultipleCloseBrackets)
        ELSE IF bra0 = 0 \/ bra0 >= l - 1 THEN fail(ErrInvalidSectionSelector)
        ELSE LET a == Atoi(Slice(name, bra0 + 1, l - 1))
             IN  [typ |-> Slice(name, 1, bra0), index |-> a.n,
                  err |-> IF a.ok THEN ErrNil ELSE ErrIndexNotNumeric]

\* unmangleSectionName: (typ, index, err).  The named results keep their
\* zero values on the early returns.
unmangleSectionName(name) ==
    LET l == Len(name)
        fail(e) == [typ |-> <<>>, index |-> 0, err |-> e]
        scan == scanBrackets(name, 0, 0)
    IN  IF l < 5 THEN fail(ErrImplausibleSectionSelector)
        ELSE IF name[1] # "@" THEN fail(ErrMustStartWithAt)
        ELSE IF scan.err # ErrNil THEN fail(scan.err)
        ELSE IF scan.bra = 0 \/ scan.bra >= l - 1
             THEN fail(ErrInvalidSectionSelector)
        ELSE LET a == Atoi(Slice(name, scan.bra + 1, l - 1))
             IN  [typ |-> Slice(name, 1, scan.bra), index |-> a.n,
                  err |-> IF a.ok THEN ErrNil ELSE ErrIndexNotNumeric]

\* IsPlaceholderName: name matches ^@<secType>\[(\d+)\]$.  Section types of
\* the model are made of letters, which a regular expression matches
\* literally.
IsPlaceholderName(name, secType) ==
    LET t == Len(secType)
        l == Len(name)
    IN  /\ l >= t + 4
        /\ name[1] = "@"
        /\ Slice(name, 1, 1 + t) = secType
        /\ name[t + 2] = "["
        /\ name[l] = "]"
        /\ \A k \in (t + 3)..(l - 1) : name[k] \in Digits

----------------------------------------------------------------------------
(* The Config tree. *)

Nil == 0

TypeOption == "option"
TypeList == "list"

NoSection == [ptr |-> Nil, Type |-> <<>>, Name |-> <<>>, Options |-> <<>>]

\* newOption
newOption(name, optionType, values) ==
    [Name |-> name, Type |-> optionType, Values |-> values]

RECURSIVE countFrom(_, _, _)
countFrom(c, typ, k) ==
    IF k > Len(c) THEN 0
    ELSE (IF c[k].Type = typ THEN 1 ELSE 0) + countFrom(c, typ, k + 1)

\* Config.count made to count the sections of every type.
countAll(c, typ) == Len(c)

\* Config.count
count(c, typ) == countFrom(c, typ, 1)

RECURSIVE getNamedFrom(_, _, _)
getNamedFrom(c, name, k) ==
    IF k > Len(c) THEN Nil
    ELSE IF c[k].Name = name THEN c[k].ptr
    ELSE getNamedFrom(c, name, k + 1)

\* Config.getNamed
getNamed(c, name) == getNamedFrom(c, name, 1)

RECURSIVE scanUnnamed(_, _, _, _, _)
\* The loop "for i, n := 0, 0; i < len(c.Sections); i++" of getUnnamed and
\* the "return nil, nil" after it.
scanUnnamed(c, typ, idx, i, n) ==
    IF i >= Len(c) THEN [sec |-> Nil, err |-> ErrNil]
    ELSE IF c[i + 1].Type = typ
         THEN IF idx = n THEN [sec |-> c[i + 1].ptr, err |-> ErrNil]
              ELSE scanUnnamed(c, typ, idx, i + 1, n + 1)
         ELSE scanUnnamed(c, typ, idx, i + 1, n)

\* getUnnamed with the index taken among all sections, whatever their type.
getUnnamedAnyType(c, name) ==
    LET u == unmangleSectionName(name)
        cnt == count(c, u.typ)
        idx == IF u.index < 0 THEN u.index + cnt ELSE u.index
    IN  IF u.err # ErrNil THEN [sec |-> Nil, err |-> u.err]
        ELSE IF -cnt > u.index \/ u.index >= cnt
             THEN [sec |-> Nil, err |-> ErrUnnamedIndexOutOfBounds]
        ELSE [sec |-> c[idx + 1].ptr, err |-> ErrNil]

\* getUnnamed without "idx += count": a negative index is scanned for as
\* it is.
getUnnamedNoRemap(c, name) ==
    LET u == unmangleSectionName(name)
        cnt == count(c, u.typ)
    IN  IF u.err # ErrNil THEN [sec |-> Nil, err |-> u.err]
        ELSE IF -cnt > u.index \/ u.index >= cnt
             THEN [sec |-> Nil, err |-> ErrUnnamedIndexOutOfBounds]
        ELSE scanUnnamed(c, u.typ, u.index, 0, 0)

\* getUnnamed with the range check "idx > count" for "idx >= count".
getUnnamedLooseBound(c, name) ==
    LET u == unmangleSectionName(name)
        cnt == count(c, u.typ)
        idx == IF u.index < 0 THEN u.index + cnt ELSE u.index
    IN  IF u.err # ErrNil THEN [sec |-> Nil, err |-> u.err]
        ELSE IF -cnt > u.index \/ u.index > cnt
             THEN [sec |-> Nil, err |-> ErrUnnamedIndexOutOfBounds]
        ELSE scanUnnamed(c, u.typ, idx, 0, 0)

\* Config.getUnnamed: (section, error)
getUnnamed(c, name) ==
    LET u == unmangleSectionName(name)
        cnt == count(c, u.typ)
        idx == IF u.index < 0 THEN u.index + cnt ELSE u.index
    IN  IF u.err # ErrNil THEN [sec |-> Nil, err |-> u.err]
        ELSE IF -cnt > u.index \/ u.index >= cnt
             THEN [sec |-> Nil, err |-> ErrUnnamedIndexOutOfBounds]
        ELSE scanUnnamed(c, u.typ, idx, 0, 0)

\* Config.Get: the section alone; getUnnamed's error is not returned.
ConfigGet(c, name) ==
    IF HasPrefixAt(name) THEN getUnnamed(c, name).sec ELSE getNamed(c, name)

\* Config.Add
ConfigAdd(c, s) == Append(c, s)

RECURSIVE mergeValuesFrom(_, _, _, _)
\* The loop "for _, v := range vs" of MergeValues: have is built once,
\* before the loop, from the values the option held then.
mergeValuesFrom(values, have, vs, k) ==
    IF k > Len(vs) THEN values
    ELSE IF vs[k] \in have THEN mergeValuesFrom(values, have, vs, k + 1)
    ELSE mergeValuesFrom(Append(values, vs[k]), have, vs, k + 1)

\* Option.AddValue
AddValue(values, v) == Append(values, v)

\* Option.SetValues
SetValues(values, vs) == vs

\* MergeValues without the "have" test: every incoming value is appended.
MergeValuesAppendAll(values, vs) == values \o vs

\* Option.MergeValues
MergeValues(values, vs) ==
    mergeValuesFrom(values, {values[k] : k \in 1..Len(values)}, vs, 1)

RECURSIVE sectionMergeFrom(_, _, _)
sectionMergeFrom(options, o, k) ==
    IF k > Len(options) THEN Append(options, o)
    ELSE IF options[k].Name = o.Name
         THEN [options EXCEPT ![k].Values = MergeValues(@, o.Values)]
         ELSE sectionMergeFrom(options, o, k + 1)

\* Section.Merge made to append always, as Section.Add does.
SectionMergeAppend(options, o) == Append(options, o)

\* Section.Merge, on the section's Options
SectionMerge(options, o) == sectionMergeFrom(options, o, 1)

RECURSIVE indexFrom(_, _, _, _)
\* The loop of Config.index from the k-th section on; panic is the
\* panic("not reached") after it.
indexFrom(c, s, k, i) ==
    IF k > Len(c) THEN [i |-> i, panic |-> TRUE]
    ELSE IF c[k].ptr = s.ptr THEN [i |-> i, panic |-> FALSE]
    ELSE indexFrom(c, s, k + 1, IF c[k].Type = s.Type THEN i + 1 ELSE i)

\* Config.index
index(c, s) == indexFrom(c, s, 1, 0)

\* Config.sectionName
sectionName(c, s) ==
    IF s.Name # <<>> THEN [name |-> s.Name, panic |-> FALSE]
    ELSE LET ix == index(c, s)
         IN  [name |-> IF ix.panic THEN <<>>
                       ELSE Num2PlaceholderSection(s.Type, ix.i),
              panic |-> ix.panic]

RECURSIVE mergeFind(_, _, _)
\* The first loop of Config.Merge: the position (from 1) of the section it
\* breaks at, 0 when it ends without one.
mergeFind(c, s, k) ==
    IF k > Len(c) THEN [found |-> 0, panic |-> FALSE]
    ELSE LET sname == sectionName(c, s)
             cname == sectionName(c, c[k])
         IN  IF sname.panic \/ cname.panic THEN [found |-> 0, panic |-> TRUE]
             ELSE IF sname.name = cname.name
                  THEN [found |-> k, panic |-> FALSE]
             ELSE mergeFind(c, s, k + 1)

RECURSIVE mergeOptions(_, _, _)
\* The loop "for _, o := range s.Options { sec.Merge(o) }".
mergeOptions(options, incoming, k) ==
    IF k > Len(incoming) THEN options
    ELSE mergeOptions(SectionMerge(options, incoming[k]), incoming, k + 1)

\* Config.Merge: the sections afterwards, the section returned, and whether
\* the call panicked instead of returning.
ConfigMerge(c, s) ==
    LET f == mergeFind(c, s, 1)
    IN  IF f.panic THEN [Sections |-> c, sec |-> Nil, panicked |-> TRUE]
        ELSE IF f.found = 0
             THEN [Sections |-> ConfigAdd(c, s), sec |-> s.ptr,
                   panicked |-> FALSE]
        ELSE [Sections |->
                  [c EXCEPT ![f.found].Options =
                       mergeOptions(@, s.Options, 1)],
              sec |-> c[f.found].ptr, panicked |-> FALSE]

RECURSIVE delScan(_, _, _, _)
\* The loop of Config.Del from the 0-based position i on, with the map
\* indexs as it stands: the i the loop ends with.
delScan(c, name, i, indexs) ==
    IF i >= Len(c) THEN i
    ELSE LET sec == c[i + 1]
         IN  IF IsPlaceholderName(name, sec.Type)
             THEN LET idx == unmangleSectionName(name).index
                      ix1 == IF sec.Type \in DOMAIN indexs THEN indexs
                             ELSE indexs @@ (sec.Type :> 0)
                  IN  IF idx = ix1[sec.Type] THEN i
                      ELSE IF sec.Name = name THEN i
                      ELSE delScan(c, name, i + 1,
                                   [ix1 EXCEPT ![sec.Type] = @ + 1])
             ELSE IF sec.Name = name THEN i
             ELSE delScan(c, name, i + 1, indexs)

\* c.Sections[:i] ++ c.Sections[i+1:], i 0-based
RemoveAt(c, i) ==
    [k \in 1..(Len(c) - 1) |-> IF k <= i THEN c[k] ELSE c[k + 1]]

\* Config.Del
ConfigDel(c, name) ==
    LET i == delScan(c, name, 0, <<>>)
    IN  IF i < Len(c) THEN RemoveAt(c, i) ELSE c

----------------------------------------------------------------------------
(* The option sequence of one section. *)

\* Section.Add, on the section's Options
SectionAdd(options, o) == Append(options, o)

RECURSIVE sectionDelScan(_, _, _)
\* The loop of Section.Del from i (0-based) on: the i it ends with,
\* Len(options) when it runs to the end.
sectionDelScan(options, name, i) ==
    IF i >= Len(options) THEN i
    ELSE IF options[i + 1].Name = name THEN i
    ELSE sectionDelScan(options, name, i + 1)

RECURSIVE sectionDelScanBack(_, _, _)
sectionDelScanBack(options, name, i) ==
    IF i < 0 THEN Len(options)
    ELSE IF options[i + 1].Name = name THEN i
    ELSE sectionDelScanBack(options, name, i - 1)

\* Section.Del made to remove the last option with the name.
SectionDelLast(options, name) ==
    LET i == sectionDelScanBack(options, name, Len(options) - 1)
    IN  IF i = Len(options) THEN [Options |-> options, ok |-> FALSE]
        ELSE [Options |-> RemoveAt(options, i), ok |-> TRUE]

\* Section.Del: the Options afterwards and the bool returned.
SectionDel(options, name) ==
    LET i == sectionDelScan(options, name, 0)
    IN  IF i = Len(options) THEN [Options |-> options, ok |-> FALSE]
        ELSE [Options |-> RemoveAt(options, i), ok |-> TRUE]

----------------------------------------------------------------------------

(* Serializing. *)

\* The literal text of the format strings of WriteTo.
ConfigWord == <<"c", "o", "n", "f", "i", "g">>
OptionWord == <<"o", "p", "t", "i", "o", "n">>
ListWord == <<"l", "i", "s", "t">>

\* fmt.Fprintf(&buf, "\nconfig %s\n", ...) or "\nconfig %s '%s'\n"
writeHeader(sec) ==
    IF sec.Name = <<>> \/ IsPlaceholderName(sec.Name, sec.Type)
    THEN <<"\n">> \o ConfigWord \o <<" ">> \o sec.Type \o <<"\n">>
    ELSE <<"\n">> \o ConfigWord \o <<" ">> \o sec.Type
             \o <<" ", "'">> \o sec.Name \o <<"'", "\n">>

RECURSIVE writeListFrom(_, _, _)
\* for _, v := range opt.Values: "\tlist %s '%s'\n"
writeListFrom(name, values, k) ==
    IF k > Len(values) THEN <<>>
    ELSE <<"\t">> \o ListWord \o <<" ", name, " ", "'", values[k], "'", "\n">>
             \o writeListFrom(name, values, k + 1)

\* switch opt.Type: the text written for one option; panic is the index
\* out of range of opt.Values[0].
writeOption(opt) ==
    IF opt.Type = TypeOption
    THEN IF Len(opt.Values) = 0
         THEN [buf |-> <<>>, panic |-> TRUE]
         ELSE [buf |-> <<"\t">> \o OptionWord
                          \o <<" ", opt.Name, " ", "'", opt.Values[1],
                               "'", "\n">>,
               panic |-> FALSE]
    ELSE IF opt.Type = TypeList
         THEN [buf |-> writeListFrom(opt.Name, opt.Values, 1),
               panic |-> FALSE]
    ELSE [buf |-> <<>>, panic |-> FALSE]

RECURSIVE writeOptionsFrom(_, _)
\* for _, opt := range sec.Options
writeOptionsFrom(options, k) ==
    IF k > Len(options) THEN [buf |-> <<>>, panic |-> FALSE]
    ELSE LET w == writeOption(options[k])
             rest == writeOptionsFrom(options, k + 1)
         IN  IF w.panic THEN w
             ELSE [buf |-> w.buf \o rest.buf, panic |-> rest.panic]

RECURSIVE writeSectionsFrom(_, _)
\* for _, sec := range c.Sections
writeSectionsFrom(c, k) ==
    IF k > Len(c) THEN [buf |-> <<>>, panic |-> FALSE]
    ELSE LET w == writeOptionsFrom(c[k].Options, 1)
             rest == writeSectionsFrom(c, k + 1)
         IN  IF w.panic THEN w
             ELSE [buf |-> writeHeader(c[k]) \o w.buf \o rest.buf,
                   panic |-> rest.panic]

\* Config.WriteTo: the bytes handed to the sink, and whether the call
\* panicked before reaching it.
WriteTo(c) ==
    LET w == writeSectionsFrom(c, 1)
    IN  IF w.panic THEN [out |-> <<>>, panicked |-> TRUE]
        ELSE [out |-> w.buf \o <<"\n">>, panicked |-> FALSE]

----------------------------------------------------------------------------

(* The inputs the model draws from. *)

\* Section types: one or more letters.
TypeA == <<"a">>
TypeB == <<"b", "c">>

Types == {TypeA, TypeB}

NameX == <<"x">>

\* The sections a caller builds (newSection, then Section.Add of options)
\* before handing them to Config.Add or Config.Merge: unnamed, named, and
\* named with a placeholder string, as WriteTo expects to find them.
NewSections ==
    { [Type |-> TypeA, Name |-> <<>>, Options |-> <<>>],
      [Type |-> TypeB, Name |-> <<>>, Options |-> <<>>],
      [Type |-> TypeA, Name |-> NameX,
       Options |-> <<newOption("p", TypeOption, <<"1">>),
                     newOption("l", TypeList, <<"1", "2">>)>>],
      [Type |-> TypeA, Name |-> NameX,
       Options |-> <<newOption("p", TypeOption, <<"2">>),
                     newOption("l", TypeList, <<"2", "3">>)>>],
      [Type |-> TypeA, Name |-> Num2PlaceholderSection(TypeA, 1),
       Options |-> <<>>] }

\* The positional selectors handed to lookup: every index in range, and one
\* step out of range on either side.
Selectors ==
    { Num2PlaceholderSection(t, i) :
        t \in Types, i \in (0 - MaxSections - 1)..MaxSections }

\* The names handed to Config.Get and getUnnamed.
GetNames == Selectors \cup {NameX, <<"@", "a", "[", "x", "]">>}

\* The names handed to Config.Del.
DelNames ==
    { Num2PlaceholderSection(t, i) : t \in Types, i \in -1..(MaxSections - 1) }
        \cup {NameX}

\* The characters of the strings handed to the parser.
Alphabet == {"@", "[", "]", "a", "0", "-", "+"}

Strings == UNION { [1..n -> Alphabet] : n \in 0..MaxLen }

\* The values of the option under test.
ValueSet == {"v", "w"}

\* The value sequences handed to newOption, SetValues and MergeValues.
ValueSeqs == UNION { [1..n -> ValueSet] : n \in 0..MaxIncoming }

\* The options a caller builds with newOption before handing them to
\* Section.Add or Section.Merge: two names, both option types, value
\* sequences that overlap and that differ.
NewOptions ==
    { newOption("p", TypeOption, <<"1">>),
      newOption("p", TypeOption, <<"2">>),
      newOption("p", TypeList, <<"3">>),
      newOption("l", TypeList, <<"1", "2">>),
      newOption("l", TypeList, <<"2", "3">>) }

\* The names handed to Section.Del: two in use and one never added.
OptionNames == {"p", "l", "z"}

\* The sections handed to Config.Add before serializing: unnamed, named,
\* named with a placeholder string of their own type and of another type,
\* with options of both types holding no, one and two values.
WriteSections ==
    { [Type |-> TypeA, Name |-> <<>>, Options |-> <<>>],
      [Type |-> TypeB, Name |-> <<>>,
       Options |-> <<newOption("p", TypeOption, <<"1">>)>>],
      [Type |-> TypeA, Name |-> NameX,
       Options |-> <<newOption("p", TypeOption, <<"1", "2">>),
                     newOption("l", TypeList, <<"1", "2">>)>>],
      [Type |-> TypeA, Name |-> Num2PlaceholderSection(TypeA, 1),
       Options |-> <<newOption("l", TypeList, <<>>)>>],
      [Type |-> TypeB, Name |-> Num2PlaceholderSection(TypeA, 1),
       Options |-> <<>>],
      [Type |-> TypeA, Name |-> <<>>,
       Options |-> <<newOption("q", TypeOption, <<>>)>>] }

\* What the sink's Write returns: nil, or its error.
ErrSink == "sink"
SinkErrors == {ErrNil, ErrSink}

At(ptr, s) ==
    [ptr |-> ptr, Type |-> s.Type, Name |-> s.Name, Options |-> s.Options]

\* The program sees the address of a section only through pointer equality,
\* so the sections of a Config are named by their position, 1..n, when a
\* call starts; the result of the call keeps these names, and a section
\* allocated for the call gets the name n+1.
Renumber(c) == [k \in 1..Len(c) |-> At(k, c[k])]

FreshPtr(c) == Len(c) + 1

\* The Configs that newConfig and up to MaxSections calls of Config.Add
\* build.
Configs ==
    UNION { {Renumber(c) : c \in [1..n -> NewSections]} : n \in 0..MaxSections }

----------------------------------------------------------------------------
(* The state machine of a Config: newConfig, then Add, Merge and Del. *)

NoCall == [op |-> "newConfig", name |-> <<>>, s |-> NoSection]
NoRet == [sec |-> Nil, err |-> ErrNil, panicked |-> FALSE]
NoParse == [done |-> FALSE, typ |-> <<>>, index |-> 0, err |-> ErrNil]
NoOptCall == [op |-> "newOption", vs |-> <<>>]
NoOption == [Name |-> "", Type |-> "", Values |-> <<>>]
NoSecCall == [op |-> "newSection", o |-> NoOption, name |-> ""]

\* newConfig
InitConfig ==
    /\ Sections = <<>>
    /\ pre = <<>>
    /\ call = NoCall
    /\ ret = NoRet

InitParseIdle ==
    /\ input = <<>>
    /\ parsed = NoParse

InitOptionIdle ==
    /\ Values = <<>>
    /\ optPre = <<>>
    /\ optCall = NoOptCall

\* newSection: no options yet.
InitSectionIdle ==
    /\ Options = <<>>
    /\ secPre = <<>>
    /\ secCall = NoSecCall
    /\ secRet = FALSE

InitWriteIdle ==
    /\ out = <<>>
    /\ sink = ErrNil

Init ==
    /\ InitConfig
    /\ InitParseIdle
    /\ InitOptionIdle
    /\ InitSectionIdle
    /\ InitWriteIdle

\* A panic ends the program: no call follows it.
Running == ~ret.panicked

DoAdd(new) ==
    /\ Running
    /\ Len(Sections) < MaxSections
    /\ LET c == Renumber(Sections)
           s == At(FreshPtr(c), new)
       IN  /\ Sections' = ConfigAdd(c, s)
           /\ pre' = c
           /\ call' = [op |-> "Add", name |-> <<>>, s |-> s]
           /\ ret' = [sec |-> s.ptr, err |-> ErrNil, panicked |-> FALSE]
    /\ UNCHANGED <<parseVars, optionVars, sectionVars, writeVars>>

\* Config.Merge of a section built in isolation.
DoMerge(new) ==
    /\ Running
    /\ LET c == Renumber(Sections)
           s == At(FreshPtr(c), new)
           m == ConfigMerge(c, s)
       IN  /\ Len(m.Sections) <= MaxSections
           /\ Sections' = m.Sections
           /\ pre' = c
           /\ call' = [op |-> "Merge", name |-> <<>>, s |-> s]
           /\ ret' = [sec |-> m.sec, err |-> ErrNil, panicked |-> m.panicked]
    /\ UNCHANGED <<parseVars, optionVars, sectionVars, writeVars>>

DoDel(name) ==
    /\ Running
    /\ LET c == Renumber(Sections)
       IN  /\ Sections' = ConfigDel(c, name)
           /\ pre' = c
    /\ call' = [op |-> "Del", name |-> name, s |-> NoSection]
    /\ ret' = NoRet
    /\ UNCHANGED <<parseVars, optionVars, sectionVars, writeVars>>

Next ==
    \/ \E new \in NewSections : DoAdd(new)
    \/ \E new \in NewSections : DoMerge(new)
    \/ \E name \in DelNames : DoDel(name)

Spec == Init /\ [][Next]_vars

----------------------------------------------------------------------------
(* Lookup, a pure function of the Config and the name, on every Config. *)

InitLookup ==
    /\ Sections \in Configs
    /\ pre = Sections
    /\ call = NoCall
    /\ ret = NoRet
    /\ InitParseIdle
    /\ InitOptionIdle
    /\ InitSectionIdle
    /\ InitWriteIdle

DoGet(name) ==
    /\ call = NoCall
    /\ call' = [op |-> "Get", name |-> name, s |-> NoSection]
    /\ ret' = [sec |-> ConfigGet(Sections, name), err |-> ErrNil,
               panicked |-> FALSE]
    /\ UNCHANGED <<Sections, pre>>
    /\ UNCHANGED <<parseVars, optionVars, sectionVars, writeVars>>

DoGetUnnamed(name) ==
    /\ call = NoCall
    /\ call' = [op |-> "getUnnamed", name |-> name, s |-> NoSection]
    /\ LET r == getUnnamed(Sections, name)
       IN  ret' = [sec |-> r.sec, err |-> r.err, panicked |-> FALSE]
    /\ UNCHANGED <<Sections, pre>>
    /\ UNCHANGED <<parseVars, optionVars, sectionVars, writeVars>>

NextLookup ==
    \/ \E name \in GetNames : DoGet(name)
    \/ \E name \in GetNames : DoGetUnnamed(name)

SpecLookup == InitLookup /\ [][NextLookup]_vars

----------------------------------------------------------------------------
(* The selector parser applied to every short string. *)

InitParse ==
    /\ InitConfig
    /\ InitOptionIdle
    /\ InitSectionIdle
    /\ InitWriteIdle
    /\ input \in Strings
    /\ parsed = NoParse

DoUnmangle ==
    /\ ~parsed.done
    /\ LET u == unmangleSectionName(input)
       IN  parsed' = [done |-> TRUE, typ |-> u.typ, index |-> u.index,
                      err |-> u.err]
    /\ UNCHANGED <<input, configVars, optionVars, sectionVars, writeVars>>

NextParse == DoUnmangle

SpecParse == InitParse /\ [][NextParse]_vars

----------------------------------------------------------------------------
(* One Option and the calls that change its Values. *)

InitOption ==
    /\ InitConfig
    /\ InitParseIdle
    /\ InitSectionIdle
    /\ InitWriteIdle
    /\ Values \in ValueSeqs
    /\ optPre = Values
    /\ optCall = NoOptCall

DoMergeValues(vs) ==
    /\ Values' = MergeValues(Values, vs)
    /\ Len(Values') <= MaxValues
    /\ optPre' = Values
    /\ optCall' = [op |-> "MergeValues", vs |-> vs]
    /\ UNCHANGED <<configVars, parseVars, sectionVars, writeVars>>

DoSetValues(vs) ==
    /\ Values' = SetValues(Values, vs)
    /\ optPre' = Values
    /\ optCall' = [op |-> "SetValues", vs |-> vs]
    /\ UNCHANGED <<configVars, parseVars, sectionVars, writeVars>>

DoAddValue(v) ==
    /\ Len(Values) < MaxValues
    /\ Values' = AddValue(Values, v)
    /\ optPre' = Values
    /\ optCall' = [op |-> "AddValue", vs |-> <<v>>]
    /\ UNCHANGED <<configVars, parseVars, sectionVars, writeVars>>

NextOption ==
    \/ \E vs \in ValueSeqs : DoMergeValues(vs)
    \/ \E vs \in ValueSeqs : DoSetValues(vs)
    \/ \E v \in ValueSet : DoAddValue(v)

SpecOption == InitOption /\ [][NextOption]_vars

----------------------------------------------------------------------------
(* One Section: Add, Merge and Del on its Options. *)

InitSection ==
    /\ InitConfig
    /\ InitParseIdle
    /\ InitOptionIdle
    /\ InitSectionIdle
    /\ InitWriteIdle

\* The values every option of the section holds stay within the bound.
WithinValues(options) ==
    \A k \in 1..Len(options) : Len(options[k].Values) <= MaxValues

DoSectionAdd(o) ==
    /\ Len(Options) < MaxOptions
    /\ Options' = SectionAdd(Options, o)
    /\ secPre' = Options
    /\ secCall' = [op |-> "Add", o |-> o, name |-> ""]
    /\ secRet' = FALSE
    /\ UNCHANGED <<configVars, parseVars, optionVars, writeVars>>

DoSectionMerge(o) ==
    /\ Options' = SectionMerge(Options, o)
    /\ Len(Options') <= MaxOptions
    /\ WithinValues(Options')
    /\ secPre' = Options
    /\ secCall' = [op |-> "Merge", o |-> o, name |-> ""]
    /\ secRet' = FALSE
    /\ UNCHANGED <<configVars, parseVars, optionVars, writeVars>>

DoSectionDel(name) ==
    /\ Options' = SectionDel(Options, name).Options
    /\ secPre' = Options
    /\ secCall' = [op |-> "Del", o |-> NoOption, name |-> name]
    /\ secRet' = SectionDel(Options, name).ok
    /\ UNCHANGED <<configVars, parseVars, optionVars, writeVars>>

NextSection ==
    \/ \E o \in NewOptions : DoSectionAdd(o)
    \/ \E o \in NewOptions : DoSectionMerge(o)
    \/ \E name \in OptionNames : DoSectionDel(name)

SpecSection == InitSection /\ [][NextSection]_vars

----------------------------------------------------------------------------
(* Serializing a Config built with Add. *)

\* Config.WriteTo(w), with e what w.Write returns.  A panic leaves the sink
\* untouched.
DoWriteTo(e) ==
    /\ Running
    /\ LET w == WriteTo(Sections)
       IN  /\ out' = w.out
           /\ sink' = IF w.panicked THEN ErrNil ELSE e
           /\ ret' = [sec |-> Nil,
                      err |-> IF w.panicked THEN ErrNil ELSE e,
                      panicked |-> w.panicked]
    /\ Sections' = Sections
    /\ pre' = Sections
    /\ call' = [op |-> "WriteTo", name |-> <<>>, s |-> NoSection]
    /\ UNCHANGED <<parseVars, optionVars, sectionVars>>

NextWrite ==
    \/ \E new \in WriteSections : DoAdd(new)
    \/ \E e \in SinkErrors : DoWriteTo(e)

SpecWrite == Init /\ [][NextWrite]_vars

----------------------------------------------------------------------------
(* Properties of positional lookup, under SpecLookup. *)

\* The positions (from 1) of the sections of type typ.
PositionsOfType(c, typ) == {k \in 1..Len(c) : c[k].Type = typ}

CountOfType(c, typ) == Cardinality(PositionsOfType(c, typ))

\* The (i+1)-th section of type typ in sequence order.
NthOfType(c, typ, i) ==
    LET ps == PositionsOfType(c, typ)
    IN  c[CHOOSE k \in ps : Cardinality({j \in ps : j < k}) = i].ptr

Looked(typ, i) ==
    /\ call.op \in {"Get", "getUnnamed"}
    /\ call.name = Num2PlaceholderSection(typ, i)

IndexRange == (0 - MaxSections - 1)..MaxSections

\* C1: for 0 <= i < count(T), lookup of @T[i] by Config.Get and by
\* getUnnamed returns the (i+1)-th section of type T in sequence order,
\* named or not, whatever sections of other types lie in between.
C1_PositionalLookup ==
    \A typ \in Types, i \in IndexRange :
        (Looked(typ, i) /\ 0 <= i /\ i < CountOfType(Sections, typ))
            => /\ ret.sec = NthOfType(Sections, typ, i)
               /\ ret.err = ErrNil

\* C1 witness: @a[1] on (a unnamed, b, a named "x") returned the third
\* section.
C1_Witness ==
    /\ Len(Sections) = 3
    /\ Sections[1].Type = TypeA /\ Sections[1].Name = <<>>
    /\ Sections[2].Type = TypeB
    /\ Sections[3].Type = TypeA /\ Sections[3].Name = NameX
    /\ call.op = "Get"
    /\ call.name = Num2PlaceholderSection(TypeA, 1)
    /\ ret.sec = Sections[3].ptr

\* C2: for -count(T) <= i < 0, lookup of @T[i] returns the very section
\* that lookup of @T[i+count(T)] returns, the (i+count(T)+1)-th of type T.
C2_NegativeIndex ==
    \A typ \in Types, i \in IndexRange :
        LET cnt == CountOfType(Sections, typ)
        IN  (Looked(typ, i) /\ i < 0 /\ 0 - cnt <= i)
                => /\ ret.sec # Nil
                   /\ ret.sec = NthOfType(Sections, typ, i + cnt)
                   /\ ret.sec =
                        ConfigGet(Sections,
                                  Num2PlaceholderSection(typ, i + cnt))
                   /\ ret.err = ErrNil

\* C2 witness: @a[-1] on (a, b, a) returned the third section, and @a[-2]
\* would return the first.
C2_Witness ==
    /\ Len(Sections) = 3
    /\ Sections[1].Type = TypeA
    /\ Sections[2].Type = TypeB
    /\ Sections[3].Type = TypeA
    /\ call.op = "getUnnamed"
    /\ call.name = Num2PlaceholderSection(TypeA, -1)
    /\ ret.sec = Sections[3].ptr
    /\ ConfigGet(Sections, Num2PlaceholderSection(TypeA, -2))
         = Sections[1].ptr

\* C3: for i >= count(T) or i < -count(T), also when the Config holds no
\* section of type T, getUnnamed returns no section and
\* ErrUnnamedIndexOutOfBounds, and Config.Get returns no section.
C3_IndexOutOfBounds ==
    \A typ \in Types, i \in IndexRange :
        LET cnt == CountOfType(Sections, typ)
        IN  (Looked(typ, i) /\ (i >= cnt \/ i < 0 - cnt))
                => /\ ret.sec = Nil
                   /\ call.op = "getUnnamed"
                        => ret.err = ErrUnnamedIndexOutOfBounds

\* C3 witness: getUnnamed of @a[2] on a Config with two sections of type a
\* failed with ErrUnnamedIndexOutOfBounds.
C3_Witness ==
    /\ CountOfType(Sections, TypeA) = 2
    /\ call.op = "getUnnamed"
    /\ call.name = Num2PlaceholderSection(TypeA, 2)
    /\ ret.sec = Nil
    /\ ret.err = ErrUnnamedIndexOutOfBounds

----------------------------------------------------------------------------
(* Properties of Config.Del and Config.Merge, under Spec. *)

\* c without its p-th section (p from 1).
Without(c, p) == SubSeq(c, 1, p - 1) \o SubSeq(c, p + 1, Len(c))

\* The position (from 1) of the (i+1)-th section of type typ.
PositionOfNth(c, typ, i) ==
    LET ps == PositionsOfType(c, typ)
    IN  CHOOSE k \in ps : Cardinality({j \in ps : j < k}) = i

\* C4: for 0 <= n < count(T), Config.Del("@T[n]") removes exactly the
\* (n+1)-th section of type T: every other section stays, as it was and in
\* the same order.
C4_DelRemovesNth ==
    \A typ \in Types, n \in 0..MaxSections :
        ( /\ call.op = "Del"
          /\ call.name = Num2PlaceholderSection(typ, n)
          /\ n < CountOfType(pre, typ) )
            => Sections = Without(pre, PositionOfNth(pre, typ, n))

\* The identity key of a section that is a member of c, at position k: its
\* Name, or "@type[index]" with the number of sections of its type before it.
KeyAt(c, k) ==
    IF c[k].Name # <<>> THEN c[k].Name
    ELSE Num2PlaceholderSection(
             c[k].Type,
             Cardinality({j \in 1..(k - 1) : c[j].Type = c[k].Type}))

MergeMatched(k) ==
    /\ Len(Sections) = Len(pre)
    /\ ret.sec = pre[k].ptr

MergeAppended ==
    /\ Sections = Append(pre, call.s)
    /\ ret.sec = call.s.ptr

\* C5: Config.Merge(s) of a section whose identity key equals that of an
\* existing section leaves the number of sections unchanged and returns
\* the (first) existing section with that key; otherwise it appends s, the
\* number of sections grows by one, and it returns s.  (An unnamed s that
\* is no member has no index yet: either outcome is taken for it.)
C5_MergeCountAndReturn ==
    call.op = "Merge" =>
        /\ ~ret.panicked
        /\ LET s == call.s
               hits == {k \in 1..Len(pre) : KeyAt(pre, k) = s.Name}
           IN  IF s.Name = <<>>
               THEN MergeAppended \/ \E k \in 1..Len(pre) : MergeMatched(k)
               ELSE IF hits # {}
                    THEN MergeMatched(CHOOSE k \in hits :
                                          \A j \in hits : k <= j)
                    ELSE MergeAppended

\* C6: Config.Merge never fails: for every Config and every incoming
\* section, also an unnamed one built in isolation, the call returns a
\* section and does not panic.
C6_MergeNeverFails ==
    call.op = "Merge" => (~ret.panicked /\ ret.sec # Nil)

----------------------------------------------------------------------------
(* Properties of Option.MergeValues, under SpecOption. *)

Range(s) == {s[k] : k \in 1..Len(s)}

IsPrefix(s, t) == Len(s) <= Len(t) /\ SubSeq(t, 1, Len(s)) = s

NoDuplicate(s) == \A j, k \in 1..Len(s) : s[j] = s[k] => j = k

\* C7: MergeValues is append-only and idempotent: the values held before
\* are a prefix of the values held after, no value held before is appended
\* again, and the same MergeValues a second time changes nothing.
C7_MergeValuesAppendOnly ==
    optCall.op = "MergeValues" =>
        /\ IsPrefix(optPre, Values)
        /\ \A k \in (Len(optPre) + 1)..Len(Values) :
               Values[k] \notin Range(optPre)
        /\ MergeValues(Values, optCall.vs) = Values

\* C7 witness: MergeValues("v", "w") on ("v") gave ("v", "w").
C7_Witness ==
    /\ optCall.op = "MergeValues"
    /\ optCall.vs = <<"v", "w">>
    /\ optPre = <<"v">>
    /\ Values = <<"v", "w">>

\* The values of vs that are not in have, each once, in the order of their
\* first occurrence.
FirstNew(vs, have) ==
    LET keep == {k \in 1..Len(vs) :
                    /\ vs[k] \notin have
                    /\ \A j \in 1..(k - 1) : vs[j] # vs[k]}
        nth(i) == CHOOSE k \in keep : Cardinality({j \in keep : j < k}) = i - 1
    IN  [i \in 1..Cardinality(keep) |-> vs[nth(i)]]

\* C8: merging keeps the values duplicate-free: when Values hold no
\* duplicate before MergeValues(vs) they hold none after, for every vs,
\* and are the old values followed by the first occurrence of each new
\* value in incoming order.
C8_MergeKeepsDuplicateFree ==
    (optCall.op = "MergeValues" /\ NoDuplicate(optPre))
        => /\ NoDuplicate(Values)
           /\ Values = optPre \o FirstNew(optCall.vs, Range(optPre))

----------------------------------------------------------------------------
(* Properties of unmangleSectionName, under SpecParse. *)

\* An optional sign, then one or more decimal digits.
IsSignedDecimal(s) ==
    /\ Len(s) >= 1
    /\ LET d == IF s[1] \in {"-", "+"} THEN Tail(s) ELSE s
       IN  Len(d) >= 1 /\ \A k \in 1..Len(d) : d[k] \in Digits

Outcomes ==
    { ErrNil, ErrImplausibleSectionSelector, ErrMustStartWithAt,
      ErrMultipleAtSigns, ErrMultipleOpenBrackets, ErrMultipleCloseBrackets,
      ErrInvalidSectionSelector, ErrIndexNotNumeric }

\* What is left to decide once no character is at fault: the place of the
\* "[" and the index.  first is the 1-based position of the "[", 0 if none.
FormatError(name, first) ==
    LET l == Len(name)
    IN  IF first = 0 \/ first >= l THEN ErrInvalidSectionSelector
        ELSE IF ~IsSignedDecimal(SubSeq(name, first + 1, l - 1))
             THEN ErrIndexNotNumeric
        ELSE ErrNil

FirstOpen(name) ==
    LET opens == {k \in 1..Len(name) : name[k] = "["}
    IN  IF opens = {} THEN 0 ELSE CHOOSE k \in opens : \A j \in opens : k <= j

\* The error of the checks taken class by class, in the order the claim
\* lists them.
ErrorByClass(name) ==
    LET l == Len(name)
    IN  IF l < 5 THEN ErrImplausibleSectionSelector
        ELSE IF name[1] # "@" THEN ErrMustStartWithAt
        ELSE IF \E k \in 2..l : name[k] = "@" THEN ErrMultipleAtSigns
        ELSE IF Cardinality({k \in 1..l : name[k] = "["}) > 1
             THEN ErrMultipleOpenBrackets
        ELSE IF \E k \in 1..(l - 1) : name[k] = "]"
             THEN ErrMultipleCloseBrackets
        ELSE FormatError(name, FirstOpen(name))

\* The error with the three per-character checks decided by the first
\* character, from the left, that fails one of them.
ErrorByPosition(name) ==
    LET l == Len(name)
        bad == {k \in 2..l :
                   \/ name[k] = "@"
                   \/ name[k] = "[" /\ \E j \in 2..(k - 1) : name[j] = "["
                   \/ name[k] = "]" /\ k # l}
        b == CHOOSE k \in bad : \A j \in bad : k <= j
    IN  IF l < 5 THEN ErrImplausibleSectionSelector
        ELSE IF name[1] # "@" THEN ErrMustStartWithAt
        ELSE IF bad # {}
             THEN IF name[b] = "@" THEN ErrMultipleAtSigns
                  ELSE IF name[b] = "[" THEN ErrMultipleOpenBrackets
                  ELSE ErrMultipleCloseBrackets
        ELSE FormatError(name, FirstOpen(name))

\* C9 as stated: every string has one outcome, and the checks apply in the
\* order: length, first character, any later "@", any second "[", any "]"
\* before the end, the place of "[", the index.
C9_ChecksByClass ==
    parsed.done =>
        (parsed.err \in Outcomes /\ parsed.err = ErrorByClass(input))

\* C9 as amended: every string has one outcome; length and first character
\* are checked first, then one scan from the left in which the first
\* character at fault decides between a later "@", a second "[" and a "]"
\* before the end, then the place of "[", then the index.
C9_ChecksByPosition ==
    parsed.done =>
        (parsed.err \in Outcomes /\ parsed.err = ErrorByPosition(input))

\* C9 witness: "@]@0]" has a "]" before the end ahead of its second "@",
\* and was rejected for the "]".
C9_Witness ==
    /\ parsed.done
    /\ input = <<"@", "]", "@", "0", "]">>
    /\ parsed.err = ErrMultipleCloseBrackets

\* C10: unmangleSectionName succeeds only on "@" TYPE "[" INDEX "]": the
\* input ends with "]", the type returned is non-empty and holds none of
\* "@", "[", "]", and the input is "@" + type + "[" + a signed base-10
\* integer + "]".
C10_SuccessOnlyOnGrammar ==
    (parsed.done /\ parsed.err = ErrNil) =>
        LET l == Len(input)
            t == Len(parsed.typ)
        IN  /\ input[l] = "]"
            /\ t >= 1
            /\ \A k \in 1..t : parsed.typ[k] \notin {"@", "[", "]"}
            /\ \E d \in {SubSeq(input, t + 3, l - 1)} :
                   /\ IsSignedDecimal(d)
                   /\ input = <<"@">> \o parsed.typ \o <<"[">> \o d \o <<"]">>

----------------------------------------------------------------------------
(* Properties of Config.Del with a negative index, under Spec. *)

\* C11: Config.Del takes negative positional selectors as lookup does: for
\* -count(T) <= i < 0, Del("@T[i]") removes exactly the section that
\* Config.Get("@T[i]") returned before the call, the one at position
\* i+count(T) of type T.
C11_DelNegativeIndex ==
    \A typ \in Types, i \in IndexRange :
        LET cnt == CountOfType(pre, typ)
        IN  ( /\ call.op = "Del"
              /\ call.name = Num2PlaceholderSection(typ, i)
              /\ i < 0
              /\ 0 - cnt <= i )
                => /\ Len(Sections) = Len(pre) - 1
                   /\ \A k \in 1..Len(Sections) :
                          Sections[k].ptr # ConfigGet(pre, call.name)
                   /\ Sections =
                        Without(pre, PositionOfNth(pre, typ, i + cnt))

----------------------------------------------------------------------------
(* Properties of Section.Del and Section.Merge, under SpecSection. *)

\* The positions (from 1) of the options called name.
PositionsOfName(options, name) ==
    {k \in 1..Len(options) : options[k].Name = name}

\* No two options share a Name.
UniqueNames(options) ==
    \A j, k \in 1..Len(options) :
        j # k => options[j].Name # options[k].Name

\* C12: Section.Del(name) removes the first option whose Name is name and
\* returns true, every other option staying in place and in order; when no
\* option has that name it returns false and the options are unchanged.
C12_SectionDelFirst ==
    secCall.op = "Del" =>
        LET hits == PositionsOfName(secPre, secCall.name)
        IN  IF hits = {}
            THEN secRet = FALSE /\ Options = secPre
            ELSE LET m == CHOOSE k \in hits : \A h \in hits : k <= h
                 IN  /\ secRet = TRUE
                     /\ Len(Options) = Len(secPre) - 1
                     /\ \A k \in 1..Len(Options) :
                            Options[k] =
                                IF k < m THEN secPre[k] ELSE secPre[k + 1]

\* Del removed the first of two options of one name, which differ, and
\* kept the second.
C12_Witness ==
    /\ secCall.op = "Del"
    /\ secRet = TRUE
    /\ \E j, k \in PositionsOfName(secPre, secCall.name) :
           j < k /\ secPre[j] # secPre[k]
    /\ PositionsOfName(Options, secCall.name) # {}

\* C16: if no two options of a section share a Name then none do after
\* Section.Merge(o) or Section.Del: Merge adds exactly one option, o itself
\* at the end, when o.Name was absent, and otherwise keeps the count and
\* changes nothing but the Values of the option of that name, which keep
\* what they held as a prefix.  From the empty section this carries over
\* every sequence of Merge and Del.
C16_MergeKeepsNamesUnique ==
    (secCall.op \in {"Merge", "Del"} /\ UniqueNames(secPre)) =>
        /\ UniqueNames(Options)
        /\ secCall.op = "Merge" =>
              LET o == secCall.o
                  hits == PositionsOfName(secPre, o.Name)
              IN  IF hits = {}
                  THEN /\ Len(Options) = Len(secPre) + 1
                       /\ SubSeq(Options, 1, Len(secPre)) = secPre
                       /\ Options[Len(Options)] = o
                  ELSE /\ Len(Options) = Len(secPre)
                       /\ \A k \in 1..Len(secPre) :
                              IF k \in hits
                              THEN /\ Options[k].Name = secPre[k].Name
                                   /\ Options[k].Type = secPre[k].Type
                                   /\ IsPrefix(secPre[k].Values,
                                               Options[k].Values)
                              ELSE Options[k] = secPre[k]

\* Merge met an option of the same name in a section of two options with
\* distinct names, and that option's Values grew.
C16_Witness ==
    /\ secCall.op = "Merge"
    /\ UniqueNames(secPre)
    /\ Len(secPre) = 2
    /\ PositionsOfName(secPre, secCall.o.Name) # {}
    /\ Options # secPre
    /\ UniqueNames(Options)

----------------------------------------------------------------------------
(* Properties of Config.WriteTo, under SpecWrite. *)

RECURSIVE Concat(_)
\* The sequences of ss one after the other.
Concat(ss) == IF ss = <<>> THEN <<>> ELSE Head(ss) \o Concat(Tail(ss))

\* The header line of a section: bare exactly when its Name is empty or is
\* @<its own type>[digits].
HeaderLine(sec) ==
    IF sec.Name = <<>> \/ IsPlaceholderName(sec.Name, sec.Type)
    THEN ConfigWord \o <<" ">> \o sec.Type
    ELSE ConfigWord \o <<" ">> \o sec.Type \o <<" ", "'">> \o sec.Name
             \o <<"'">>

\* The lines of one option: for a TypeOption one line with Values[0] (none
\* where there is no Values[0]), for a TypeList one line per value.
OptionLines(opt) ==
    IF opt.Type = TypeOption
    THEN IF opt.Values = <<>> THEN <<>>
         ELSE << <<"\t">> \o OptionWord
                     \o <<" ", opt.Name, " ", "'", opt.Values[1], "'">> >>
    ELSE [k \in 1..Len(opt.Values) |->
              <<"\t">> \o ListWord
                  \o <<" ", opt.Name, " ", "'", opt.Values[k], "'">>]

\* The lines of one section: an empty line, its header, its options' lines.
SectionLines(sec) ==
    << <<>>, HeaderLine(sec) >>
        \o Concat([k \in 1..Len(sec.Options) |-> OptionLines(sec.Options[k])])

\* The text of a Config: every line of every section ended by a newline,
\* and one newline at the end.
ExpectedText(c) ==
    LET lines == Concat([k \in 1..Len(c) |-> SectionLines(c[k])])
    IN  Concat([k \in 1..Len(lines) |-> lines[k] \o <<"\n">>]) \o <<"\n">>

\* C13: Config.WriteTo emits, for the sections in their stored order, one
\* header per section, bare exactly when the Name is empty or a placeholder
\* of the section's own type and named otherwise, then for each option in
\* order one option line carrying only Values[0] for a TypeOption and one
\* list line per value for a TypeList; the tree is not modified.
C13_WriteToFormat ==
    call.op = "WriteTo" =>
        /\ out = ExpectedText(pre)
        /\ Sections = pre

\* C14: Config.WriteTo completes without a panic on every tree built with
\* newOption (with any number of values, none included), Section.Add and
\* Config.Add, and returns an error only when the sink's write returned one.
C14_FailsOnlyThroughSink ==
    call.op = "WriteTo" =>
        /\ ~ret.panicked
        /\ ret.err # ErrNil => sink # ErrNil

----------------------------------------------------------------------------
(* Properties of the errors of positional lookup, under SpecLookup. *)

\* C15: when positional lookup through Config.Get fails on the selector's
\* syntax or on an index out of range, the error getUnnamed found reaches
\* the caller of Get, so that the failure differs from a plain nil result.
C15_GetReturnsLookupError ==
    (call.op = "Get" /\ HasPrefixAt(call.name)) =>
        ret.err = getUnnamed(Sections, call.name).err

----------------------------------------------------------------------------
(* Properties of merging a section into an existing one, under Spec. *)

\* C17: when Config.Merge extends an existing section and both the section
\* and the incoming one carry a TypeOption option of one name with different
\* single values, the option afterwards carries exactly one value, the
\* incoming one; TypeList options of one name keep their values and take
\* the incoming values they lack.
C17_ScalarOverwrittenOnMerge ==
    (call.op = "Merge" /\ ~ret.panicked) =>
        \A k \in 1..Len(pre) :
            MergeMatched(k) =>
                \A i \in 1..Len(pre[k].Options),
                   j \in 1..Len(call.s.Options) :
                    LET old == pre[k].Options[i]
                        new == call.s.Options[j]
                        now == Sections[k].Options[i]
                    IN  old.Name = new.Name /\ old.Type = new.Type =>
                          IF old.Type = TypeList
                          THEN /\ IsPrefix(old.Values, now.Values)
                               /\ Range(now.Values) =
                                    Range(old.Values) \cup Range(new.Values)
                          ELSE ( /\ Len(old.Values) = 1
                                 /\ Len(new.Values) = 1
                                 /\ old.Values # new.Values )
                                   => now.Values = new.Values

----------------------------------------------------------------------------
(* Properties of positional selectors across mutations, under Spec. *)

\* C18: after Config.Add and Config.Del the selectors @T[0] ..
\* @T[count(T)-1] resolve, in that order, to the sections of type T now in
\* the Config; after Del("@T[n]") with 0 <= n < count(T) the section that
\* was @T[m] is @T[m-1] for m > n and still @T[m] for m < n, and the
\* selectors of every other type resolve as before.
C18_PositionsRecomputed ==
    call.op \in {"Add", "Del"} =>
        /\ \A typ \in Types, i \in 0..MaxSections :
               i < CountOfType(Sections, typ) =>
                   /\ ConfigGet(Sections, Num2PlaceholderSection(typ, i))
                        = NthOfType(Sections, typ, i)
                   /\ getUnnamed(Sections,
                                 Num2PlaceholderSection(typ, i)).err = ErrNil
        /\ \A typ \in Types, n \in 0..MaxSections :
               ( /\ call.op = "Del"
                 /\ call.name = Num2PlaceholderSection(typ, n)
                 /\ n < CountOfType(pre, typ) )
                   => \A other \in Types, m \in 0..MaxSections :
                          m < CountOfType(pre, other) =>
                              LET was == ConfigGet(
                                      pre, Num2PlaceholderSection(other, m))
                                  at(i) == ConfigGet(
                                      Sections,
                                      Num2PlaceholderSection(other, i))
                              IN  IF other # typ \/ m < n THEN at(m) = was
                                  ELSE m > n => at(m - 1) = was

----------------------------------------------------------------------------
(* Properties of the outcomes of getUnnamed, under SpecLookup. *)

\* C19: for every Config and every well-formed selector @T[i], getUnnamed
\* returns either a section and no error, or no section and
\* ErrUnnamedIndexOutOfBounds, never no section and no error; when the
\* Config holds no section of type T it is ErrUnnamedIndexOutOfBounds.
C19_NoSilentMiss ==
    \A typ \in Types, i \in IndexRange :
        ( /\ call.op = "getUnnamed"
          /\ call.name = Num2PlaceholderSection(typ, i) )
            => /\ \/ ret.sec # Nil /\ ret.err = ErrNil
                  \/ ret.sec = Nil /\ ret.err = ErrUnnamedIndexOutOfBounds
               /\ CountOfType(Sections, typ) = 0 =>
                      /\ ret.sec = Nil
                      /\ ret.err = ErrUnnamedIndexOutOfBounds

\* getUnnamed of @bc[0] on a Config of two sections, none of type bc,
\* failed with ErrUnnamedIndexOutOfBounds.
C19_Witness ==
    /\ call.op = "getUnnamed"
    /\ call.name = Num2PlaceholderSection(TypeB, 0)
    /\ Len(Sections) = 2
    /\ CountOfType(Sections, TypeB) = 0
    /\ ret.sec = Nil
    /\ ret.err = ErrUnnamedIndexOutOfBounds

----------------------------------------------------------------------------
====
